---- MODULE Spec2Model ----
(***************************************************************************)
(* Data-quality checks of data_quality_interactive.ipynb:                  *)
(*   check_completeness, validate_varchar_detailed,                        *)
(*   validate_bigint_detailed, and the uniqueness section of the recorded  *)
(*   report.                                                               *)
(*                                                                         *)
(* A column is the list handed to pd.Series.  A cell is a record           *)
(*   [k, s, b, h]:  k = "None" | "NaN" | "str" | "int" | "float",          *)
(*   s the text of a string cell, and (b, h) the number b * 2^63 + h / 2   *)
(*   of a numeric cell (h counts halves, so 42.5 is h = 85).  Offsets h    *)
(*   stay far below 2^62, so numbers are ordered lexicographically on      *)
(*   (b, h), and a float64 cannot hold a non-zero offset next to 2^63      *)
(*   (the spacing of float64 there is 1024).                               *)
(*                                                                         *)
(* A rate is [nan, h]: h hundredths of a percent, or NaN.                  *)
(***************************************************************************)
EXTENDS Integers, Sequences, FiniteSets, TLC

\* ------------------------------------------------------------------ bounds
MaxLen == 3

\* ------------------------------------------------------------------- cells
None == [k |-> "None", s |-> "", b |-> 0, h |-> 0]

NaN == [k |-> "NaN", s |-> "", b |-> 0, h |-> 0]

Str(t) == [k |-> "str", s |-> t, b |-> 0, h |-> 0]

PyInt(big, n) == [k |-> "int", s |-> "", b |-> big, h |-> 2 * n]

PyFloat(big, halves) == [k |-> "float", s |-> "", b |-> big, h |-> halves]

Short == Str("Short")

\* the string the scenario calls "exactly fifty": it has 51 characters
Exactly50 == Str("Exactly-fifty-chars-long-string-padded-to-50chars!!")

Exceeding51 == Str("51-characters-long-string-exceeding-the-limit-now!!")

Int64Min == PyInt(-1, 0)

Int64Max == PyInt(1, -1)

DefaultMaxLength == 50

\* 50 characters
FiftyChars == Str("Exactly-fifty-chars-long-string-padded-to-50chars!")

StrCells ==
    {None, NaN, Str(""), Str("a"), Short, FiftyChars, Exactly50, Exceeding51}

NumCells ==
    {None, NaN, PyInt(0, 42), PyInt(0, -100), PyFloat(0, 84), PyFloat(0, 85),
     Int64Max, Int64Min, PyInt(1, 0), PyFloat(1, 0)}

MaxLengths == {0, 1, 5, DefaultMaxLength}

Bounds == {<<Int64Min, Int64Max>>, <<PyInt(0, -100), PyInt(0, 42)>>,
           <<PyInt(0, 42), PyInt(0, -100)>>}

\* ------------------------------------------------------------- test columns
test_series == <<PyInt(0, 1), PyInt(0, 2), None, PyInt(0, 4), NaN, PyInt(0, 6), PyInt(0, 7), None>>

test_strings ==
    <<Short, Str("Medium length"),
      Str("This is a very very very very long string that exceeds the fifty character limit"),
      Str(""), None, NaN,
      Str("Exactly fifty characters - this should pass test"),
      Str("This string is exactly fifty one characters long!")>>

test_integers ==
    <<PyInt(0, 42), PyInt(0, -100), Int64Max, Int64Min, PyInt(1, 0), PyInt(0, 0),
      None, NaN, PyFloat(0, 84), PyFloat(0, 85)>>

ScenarioFifty == <<Short, Exactly50, None>>

ScenarioFiftyOne == <<Exceeding51>>

ScenarioBigint == <<PyInt(0, 42), PyInt(0, -100), PyInt(1, 0), None>>

ScenarioUniqueness == <<Str("A"), Str("A"), Str("B"), Str("C")>>

\* two values tied on their count, the later-sorting one seen first
TiedDuplicates == <<Str("B"), Str("A"), None, Str("A"), Str("B"), Str("C")>>

\* six repeated values: A x 3, D x 3, F x 2, E x 2, B x 2, C x 2
SixDuplicated ==
    <<Str("F"), Str("E"), Str("A"), Str("B"), Str("C"), Str("D"), Str("G"),
      Str("F"), Str("E"), Str("A"), Str("B"), Str("C"), Str("D"), NaN,
      Str("D"), Str("A")>>

ColumnsOver(cells) == UNION {[1..n -> cells] : n \in 0..MaxLen}

StrColumns ==
    ColumnsOver(StrCells)
        \cup {test_strings, ScenarioFifty, ScenarioFiftyOne,
              ScenarioUniqueness, TiedDuplicates, SixDuplicated}

NumColumns == ColumnsOver(NumCells) \cup {test_series, test_integers, ScenarioBigint}

\* ----------------------------------------------------------------- helpers
IsNa(v) == v.k \in {"None", "NaN"}

IsNumber(v) == v.k \in {"int", "float"}

RECURSIVE SumSeq(_)
SumSeq(q) == IF q = <<>> THEN 0 ELSE Head(q) + SumSeq(Tail(q))

CountTrue(mask) == SumSeq([i \in 1..Len(mask) |-> IF mask[i] THEN 1 ELSE 0])

CountEq(results, x) ==
    SumSeq([i \in 1..Len(results) |-> IF results[i] = x THEN 1 ELSE 0])

Rate(hundredths) == [nan |-> FALSE, h |-> hundredths]

NaNRate == [nan |-> TRUE, h |-> 0]

\* round(num / den * 100, 2) in hundredths; den < 64 has no rounding tie
Round2(num, den) == Rate((20000 * num + den) \div (2 * den))

\* numpy: int64 / 0 is nan (with a warning), never ZeroDivisionError
NumpyDivRound2(num, den) == IF den = 0 THEN NaNRate ELSE Round2(num, den)

NoCompleteness ==
    [total_values |-> 0, missing_values |-> 0, present_values |-> 0,
     completeness_rate |-> Rate(0)]

NoValidity ==
    [total_values |-> 0, missing_values |-> 0, valid_values |-> 0,
     invalid_values |-> 0, validity_rate |-> Rate(0),
     completeness_rate |-> Rate(0)]

\* ------------------------------------------------------------------- state
VARIABLES data, called, completeness_result,
          max_length, varchar_result, varchar_validity,
          min_val, max_val, bigint_result, bigint_validity,
          uniqueness_result,
          source, clock, run, reports,
          frames,
          repeated, old_results, vectorized_results, validity_section

vars == <<data, called, completeness_result,
          max_length, varchar_result, varchar_validity,
          min_val, max_val, bigint_result, bigint_validity,
          uniqueness_result,
          source, clock, run, reports,
          frames,
          repeated, old_results, vectorized_results, validity_section>>

\* the state of the single-column calls of the notebook cells
checkVars == <<data, called, completeness_result,
               max_length, varchar_result, varchar_validity,
               min_val, max_val, bigint_result, bigint_validity,
               uniqueness_result,
               repeated, old_results, vectorized_results, validity_section>>

\* the results of the other validity functions: your_original_style,
\* is_valid_varchar_vectorized and the validity section of the report
variantVars == <<old_results, vectorized_results, validity_section>>

\* the state of a table analysis
analyzeVars == <<source, clock, run, reports>>

varcharVars == <<max_length, varchar_result, varchar_validity>>

bigintVars == <<min_val, max_val, bigint_result, bigint_validity>>

\* ------------------------------------------------------ check_completeness
check_completeness_unguarded(d) ==
    LET missing_count == CountTrue([i \in 1..Len(d) |-> IsNa(d[i])])
        total_count == Len(d)
        present_count == total_count - missing_count
    IN  [total_values |-> total_count,
         missing_values |-> missing_count,
         present_values |-> present_count,
         completeness_rate |-> NumpyDivRound2(present_count, total_count)]

check_completeness(d) ==
    LET missing_count == CountTrue([i \in 1..Len(d) |-> IsNa(d[i])])
        total_count == Len(d)
        present_count == total_count - missing_count
        completeness_rate ==
            IF total_count > 0 THEN Round2(present_count, total_count)
            ELSE Rate(0)
    IN  [total_values |-> total_count,
         missing_values |-> missing_count,
         present_values |-> present_count,
         completeness_rate |-> completeness_rate]

\* ----------------------------------------------- validate_varchar_detailed
NaNLen == -1

StrLen_emptyIsMissing(v) ==
    IF v.k = "str" /\ v.s # "" THEN Len(v.s) ELSE NaNLen

StrLen(v) == IF v.k = "str" THEN Len(v.s) ELSE NaNLen

where_unmasked(cond, mask) ==
    [i \in 1..Len(cond) |-> IF cond[i] THEN "True" ELSE "False"]

where(cond, mask) ==
    [i \in 1..Len(cond) |->
        IF ~mask[i] THEN (IF cond[i] THEN "True" ELSE "False") ELSE "NaN"]

varchar_validity_results_strict(d, m) ==
    LET is_missing == [i \in 1..Len(d) |-> IsNa(d[i])]
        string_lengths == [i \in 1..Len(d) |-> StrLen(d[i])]
        is_valid_length ==
            [i \in 1..Len(d) |->
                string_lengths[i] # NaNLen /\ string_lengths[i] < m]
    IN  where(is_valid_length, is_missing)

varchar_validity_results_fillnaTrue(d, m) ==
    LET is_missing == [i \in 1..Len(d) |-> IsNa(d[i])]
        string_lengths == [i \in 1..Len(d) |-> StrLen(d[i])]
        is_valid_length ==
            [i \in 1..Len(d) |->
                string_lengths[i] # NaNLen /\ string_lengths[i] <= m]
    IN  [i \in 1..Len(d) |->
            IF is_missing[i] \/ is_valid_length[i] THEN "True" ELSE "False"]

varchar_validity_results(d, m) ==
    LET is_missing == [i \in 1..Len(d) |-> IsNa(d[i])]
        string_lengths == [i \in 1..Len(d) |-> StrLen(d[i])]
        is_valid_length ==
            [i \in 1..Len(d) |->
                string_lengths[i] # NaNLen /\ string_lengths[i] <= m]
    IN  where(is_valid_length, is_missing)

validity_metrics_invalidIsNotValid(d, validity_results) ==
    LET missing_count == CountTrue([i \in 1..Len(d) |-> IsNa(d[i])])
        valid_count == CountEq(validity_results, "True")
        invalid_count == Len(validity_results) - valid_count
    IN  [total_values |-> Len(d),
         missing_values |-> missing_count,
         valid_values |-> valid_count,
         invalid_values |-> invalid_count,
         validity_rate |->
            IF Len(d) - missing_count > 0
            THEN Round2(valid_count, Len(d) - missing_count)
            ELSE Rate(0),
         completeness_rate |->
            NumpyDivRound2(Len(d) - missing_count, Len(d))]

validity_metrics_totalDenominator(d, validity_results) ==
    LET missing_count == CountTrue([i \in 1..Len(d) |-> IsNa(d[i])])
        valid_count == CountEq(validity_results, "True")
        invalid_count == CountEq(validity_results, "False")
    IN  [total_values |-> Len(d),
         missing_values |-> missing_count,
         valid_values |-> valid_count,
         invalid_values |-> invalid_count,
         validity_rate |->
            IF Len(d) > 0 THEN Round2(valid_count, Len(d)) ELSE Rate(0),
         completeness_rate |->
            NumpyDivRound2(Len(d) - missing_count, Len(d))]

validity_metrics_completenessOfValid(d, validity_results) ==
    LET missing_count == CountTrue([i \in 1..Len(d) |-> IsNa(d[i])])
        valid_count == CountEq(validity_results, "True")
        invalid_count == CountEq(validity_results, "False")
    IN  [total_values |-> Len(d),
         missing_values |-> missing_count,
         valid_values |-> valid_count,
         invalid_values |-> invalid_count,
         validity_rate |->
            IF Len(d) - missing_count > 0
            THEN Round2(valid_count, Len(d) - missing_count)
            ELSE Rate(0),
         completeness_rate |-> NumpyDivRound2(valid_count, Len(d))]

validity_metrics(d, validity_results) ==
    LET missing_count == CountTrue([i \in 1..Len(d) |-> IsNa(d[i])])
        valid_count == CountEq(validity_results, "True")
        invalid_count == CountEq(validity_results, "False")
    IN  [total_values |-> Len(d),
         missing_values |-> missing_count,
         valid_values |-> valid_count,
         invalid_values |-> invalid_count,
         validity_rate |->
            IF Len(d) - missing_count > 0
            THEN Round2(valid_count, Len(d) - missing_count)
            ELSE Rate(0),
         completeness_rate |->
            NumpyDivRound2(Len(d) - missing_count, Len(d))]

validate_varchar_detailed(d, m) ==
    validity_metrics(d, varchar_validity_results(d, m))

\* ------------------------------------------------- pd.Series construction
\* x <= y on numbers b * 2^63 + h / 2
NumLeq(x, y) == x.b < y.b \/ (x.b = y.b /\ x.h <= y.h)

\* nearest float64: exact below 2^53, and b * 2^63 for a small offset from it
ToFloat64(v) == PyFloat(v.b, IF v.b = 0 THEN v.h ELSE 0)

\* dtype pandas infers for the list d (integers are inspected until the
\* first None; a signed and an unsigned-only integer together give object)
InferDtype(d) ==
    LET idx == 1..Len(d)
        beforeNone(i) == \A j \in 1..(i - 1) : d[j].k # "None"
        counted == {i \in idx : d[i].k = "int" /\ beforeNone(i)}
        uint_ == \E i \in counted : ~NumLeq(d[i], Int64Max)
        sint_ == \E i \in counted : ~NumLeq(PyInt(0, 0), d[i])
        below == \E i \in counted : ~NumLeq(Int64Min, d[i])
        str_ == \E i \in idx : d[i].k = "str"
        null_ == \E i \in idx : d[i].k = "None"
        nan_ == \E i \in idx : d[i].k = "NaN"
        float_ == \E i \in idx : d[i].k = "float"
        int_ == \E i \in idx : d[i].k = "int"
    IN  IF str_ \/ (uint_ /\ sint_) \/ below THEN "object"
        ELSE IF null_ \/ nan_
             THEN (IF float_ \/ int_ \/ nan_ THEN "float64" ELSE "object")
        ELSE IF float_ THEN "float64"
        ELSE IF int_ THEN (IF uint_ THEN "uint64" ELSE "int64")
        ELSE "object"

\* the values the Series holds
Series(d) ==
    IF InferDtype(d) = "float64"
    THEN [i \in 1..Len(d) |-> IF IsNa(d[i]) THEN NaN ELSE ToFloat64(d[i])]
    ELSE d

\* ------------------------------------------------ validate_bigint_detailed
\* data >= min_val, data <= max_val: a float64 column compares in float64
\* (the Python int bound is converted), every other dtype compares exactly
GreaterEqual(dtype, v, bound) ==
    /\ ~IsNa(v)
    /\ IF dtype = "float64" THEN NumLeq(ToFloat64(bound), v)
       ELSE NumLeq(bound, v)

LessEqual(dtype, v, bound) ==
    /\ ~IsNa(v)
    /\ IF dtype = "float64" THEN NumLeq(v, ToFloat64(bound))
       ELSE NumLeq(v, bound)

float_is_integer(v) == IsNa(v) \/ ToFloat64(v).h % 2 = 0

bigint_validity_results(d, min_val_, max_val_) ==
    LET dtype == InferDtype(d)
        s == Series(d)
        is_missing == [i \in 1..Len(s) |-> IsNa(s[i])]
        is_within_range ==
            [i \in 1..Len(s) |->
                GreaterEqual(dtype, s[i], min_val_)
                    /\ LessEqual(dtype, s[i], max_val_)]
        is_integer == [i \in 1..Len(s) |-> float_is_integer(s[i])]
        is_valid == [i \in 1..Len(s) |-> is_within_range[i] /\ is_integer[i]]
    IN  where(is_valid, is_missing)

validate_bigint_detailed(d, min_val_, max_val_) ==
    validity_metrics(d, bigint_validity_results(d, min_val_, max_val_))

\* ------------------------------------------- uniqueness section of the report
\* The recorded report gives, for customer_id: total_rows 1070 (67 of them
\* missing, non_null_values 1003), top_duplicates 999.0 x 3 and 998.0 x 2,
\* hence 1000 distinct present values, unique_count 1001 and
\* duplicate_count 69 = 1070 - 1001: every row is counted, and the missing
\* marker is one more distinct value.
Key(v) == IF IsNa(v) THEN NaN ELSE IF v.k = "str" THEN v ELSE [v EXCEPT !.k = "num"]

\* top_duplicates lists at most five values (age: 66 distinct values, five
\* listed), none of them occurring once (customer_id: 1000 distinct present
\* values, two listed) and never the missing marker (customer_id: 67 missing
\* rows, not listed)
K == 5

Min(a, b) == IF a <= b THEN a ELSE b

\* occurrences of the value of row i
value_count(s, i) == Cardinality({j \in 1..Len(s) : Key(s[j]) = Key(s[i])})

\* the rows where a present value is seen for the first time
first_seen(s) ==
    {i \in 1..Len(s) :
        ~IsNa(s[i]) /\ \A j \in 1..(i - 1) : Key(s[j]) # Key(s[i])}

\* position of row i among the rows of rows, by count descending, rows of
\* equal count in the order of the column (first_name: John, Jane, Bob,
\* Alice, 250 each, listed in the order of the generated rows)
rank(s, rows, i) ==
    1 + Cardinality({j \in rows :
            \/ value_count(s, j) > value_count(s, i)
            \/ value_count(s, j) = value_count(s, i) /\ j < i})

top_duplicates_withSingles(s, k) ==
    LET rows == first_seen(s)
    IN  [p \in 1..Min(k, Cardinality(rows)) |->
            LET i == CHOOSE i \in rows : rank(s, rows, i) = p
            IN  <<Key(s[i]), value_count(s, i)>>]

top_duplicates_uncapped(s, k) ==
    LET rows == {i \in first_seen(s) : value_count(s, i) > 1}
    IN  [p \in 1..Cardinality(rows) |->
            LET i == CHOOSE i \in rows : rank(s, rows, i) = p
            IN  <<Key(s[i]), value_count(s, i)>>]

top_duplicates(s, k) ==
    LET rows == {i \in first_seen(s) : value_count(s, i) > 1}
    IN  [p \in 1..Min(k, Cardinality(rows)) |->
            LET i == CHOOSE i \in rows : rank(s, rows, i) = p
            IN  <<Key(s[i]), value_count(s, i)>>]

check_uniqueness(d) ==
    LET s == Series(d)
        total_rows == Len(s)
        unique_count == Cardinality({Key(s[i]) : i \in 1..Len(s)})
    IN  [total_rows |-> total_rows,
         unique_count |-> unique_count,
         duplicate_count |-> total_rows - unique_count,
         top_duplicates |-> top_duplicates(s, K)]

NoUniqueness ==
    [total_rows |-> 0, unique_count |-> 0, duplicate_count |-> 0,
     top_duplicates |-> <<>>]

\* ---------------------------------------------------------------- analyze
\* analyze(source, rules_by_column, sampling_config) -> TableReport, with its
\* Sampler and ReportAggregator.  The table has the first two columns of
\* the recorded report, customer_id under the BIGINT rule and first_name
\* under the VARCHAR rule.
MaxRows == 2

MaxRuns == 2

DefaultThreshold == 1000000

DefaultSampleSize == 50000

ColumnNames == {"customer_id", "first_name"}

rules_by_column ==
    [customer_id |-> [type |-> "bigint", min_value |-> Int64Min,
                      max_value |-> Int64Max, max_length |-> 0],
     first_name |-> [type |-> "varchar", min_value |-> Int64Min,
                     max_value |-> Int64Max, max_length |-> DefaultMaxLength]]

Tables ==
    UNION {[customer_id : [1..n -> {PyInt(0, 42), None}],
            first_name : [1..n -> {Short, NaN}]] : n \in 0..MaxRows}

Sources == [table_name : {"customers_demo"}, remote : BOOLEAN, columns : Tables]

NoSource ==
    [table_name |-> "", remote |-> FALSE,
     columns |-> [customer_id |-> <<>>, first_name |-> <<>>]]

SamplingConfigs ==
    {[threshold |-> DefaultThreshold, sample_size |-> DefaultSampleSize],
     [threshold |-> 1, sample_size |-> 1]}

\* TabularSource.row_count()
row_count(src) == Len(src.columns.customer_id)

\* TabularSource.column_values(name), restricted to the rows examined
column_values(src, name, rows) ==
    [p \in 1..Len(rows) |-> src.columns[name][rows[p]]]

AllRows(n) == [i \in 1..n |-> i]

\* Sampler policy: all rows for a local source within the threshold
use_all_rows_thresholdOnly(src, cfg) == row_count(src) <= cfg.threshold

use_all_rows(src, cfg) == ~src.remote /\ row_count(src) <= cfg.threshold

\* fixed-row LIMIT, uniform random sampling, server-side percentage sample
Strategies(src) ==
    {"LIMIT", "RANDOM"} \cup (IF src.remote THEN {"TABLESAMPLE"} ELSE {})

\* the row sets a strategy can deliver: sample_size rows, or every row of a
\* table that has fewer
Samples(src, cfg, strategy) ==
    LET n == row_count(src)
        k == Min(cfg.sample_size, n)
    IN  IF strategy = "LIMIT" THEN {AllRows(k)}
        ELSE {q \in [1..k -> 1..n] : \A i, j \in 1..k : i < j => q[i] < q[j]}

Sampler(src, cfg) ==
    IF use_all_rows(src, cfg)
    THEN {[sampled |-> FALSE, strategy |-> "none",
           rows |-> AllRows(row_count(src))]}
    ELSE UNION {{[sampled |-> TRUE, strategy |-> st, rows |-> q] :
                    q \in Samples(src, cfg, st)} : st \in Strategies(src)}

\* a check that has not completed
PendingResult ==
    [status |-> "pending", issues |-> {}, completeness |-> NoCompleteness,
     validity |-> NoValidity, uniqueness |-> NoUniqueness]

\* data.str.len() raises AttributeError on a column that holds no string
\* (a float64 column of NaN)
raises(rule, d) ==
    IF rule.type = "varchar" /\ InferDtype(d) # "object"
    THEN "AttributeError" ELSE "none"

\* the three checks of one column, a failure caught at the column boundary
check_column_reraising(rule, d) ==
    IF raises(rule, d) # "none"
    THEN PendingResult
    ELSE [status |-> "ok", issues |-> {},
          completeness |-> check_completeness(d),
          validity |->
             IF rule.type = "varchar"
             THEN validate_varchar_detailed(d, rule.max_length)
             ELSE validate_bigint_detailed(d, rule.min_value, rule.max_value),
          uniqueness |-> check_uniqueness(d)]

check_column(rule, d) ==
    IF raises(rule, d) # "none"
    THEN [PendingResult EXCEPT !.status = "failed", !.issues = {raises(rule, d)}]
    ELSE [status |-> "ok", issues |-> {},
          completeness |-> check_completeness(d),
          validity |->
             IF rule.type = "varchar"
             THEN validate_varchar_detailed(d, rule.max_length)
             ELSE validate_bigint_detailed(d, rule.min_value, rule.max_value),
          uniqueness |-> check_uniqueness(d)]

table_info_rowsSeenSoFar(name, rows, columns, now) ==
    [table_name |-> name, total_rows |-> rows + now,
     total_columns |-> columns, analysis_timestamp |-> now]

table_info(name, rows, columns, now) ==
    [table_name |-> name, total_rows |-> rows,
     total_columns |-> columns, analysis_timestamp |-> now]

\* ReportAggregator
TableReport_neverSampled(src, r, now) ==
    [table_info |->
        table_info(src.table_name, Len(r.plan.rows),
                   Cardinality(ColumnNames), now),
     sampled |-> FALSE,
     sampling_strategy |-> "none",
     columns |-> r.results]

TableReport(src, r, now) ==
    [table_info |->
        table_info(src.table_name, Len(r.plan.rows),
                   Cardinality(ColumnNames), now),
     sampled |-> r.plan.sampled,
     sampling_strategy |-> r.plan.strategy,
     columns |-> r.results]

IdleRun ==
    [pc |-> "idle",
     sampling_config |->
        [threshold |-> DefaultThreshold, sample_size |-> DefaultSampleSize],
     plan |-> [sampled |-> FALSE, strategy |-> "none", rows |-> <<>>],
     pending |-> {},
     results |-> [c \in ColumnNames |-> PendingResult]]

all_calls_complete_always(r) == TRUE

all_calls_complete(r) == r.pending = {}

\* ------------------------------------------- the checks, statement by statement
\* Calls of check_completeness and validate_varchar_detailed that are in
\* progress at the same time.  frames[id] is the activation of call id: the
\* function, the statement reached, the arguments the caller passed, the
\* local names of the body, and what the call returned.
MaxCalls == 2

StepColumns ==
    {<<Short, None>>, <<Exceeding51, Str("a")>>, <<NaN, FiftyChars>>}

StepMaxLengths == {5, DefaultMaxLength}

NoLocals ==
    [data |-> <<>>, max_length |-> 0, is_missing |-> <<>>, missing_count |-> 0,
     string_lengths |-> <<>>, is_valid_length |-> <<>>,
     validity_results |-> <<>>, total_count |-> 0, present_count |-> 0]

NoFrame ==
    [fn |-> "none", pc |-> 0, arg |-> <<>>, arg_max_length |-> 0,
     locals |-> NoLocals, returned_completeness |-> NoCompleteness,
     returned_varchar |-> NoValidity, returned_validity |-> <<>>]

NoFrames == [id \in 1..MaxCalls |-> NoFrame]

\* the names of a function body are local to the call
frame_of_shared(id) == 1

frame_of(id) == id

\* validate_varchar_detailed, Steps 1 to 4
varchar_step_maskSkipped(L, pc) ==
    IF pc = 0
    THEN [L EXCEPT !.is_missing = [i \in 1..Len(L.data) |-> FALSE],
                   !.missing_count = 0]
    ELSE IF pc = 1
    THEN [L EXCEPT !.string_lengths =
                      [i \in 1..Len(L.data) |-> StrLen(L.data[i])]]
    ELSE IF pc = 2
    THEN [L EXCEPT !.is_valid_length =
                      [i \in 1..Len(L.string_lengths) |->
                          /\ L.string_lengths[i] # NaNLen
                          /\ L.string_lengths[i] <= L.max_length]]
    ELSE [L EXCEPT !.validity_results = where(L.is_valid_length, L.is_missing)]

varchar_step_lengthAtLeast(L, pc) ==
    IF pc = 0
    THEN [L EXCEPT !.is_missing = [i \in 1..Len(L.data) |-> IsNa(L.data[i])],
                   !.missing_count =
                      CountTrue([i \in 1..Len(L.data) |-> IsNa(L.data[i])])]
    ELSE IF pc = 1
    THEN [L EXCEPT !.string_lengths =
                      [i \in 1..Len(L.data) |-> StrLen(L.data[i])]]
    ELSE IF pc = 2
    THEN [L EXCEPT !.is_valid_length =
                      [i \in 1..Len(L.string_lengths) |->
                          /\ L.string_lengths[i] # NaNLen
                          /\ L.string_lengths[i] >= L.max_length]]
    ELSE [L EXCEPT !.validity_results = where(L.is_valid_length, L.is_missing)]

varchar_step(L, pc) ==
    IF pc = 0
    THEN [L EXCEPT !.is_missing = [i \in 1..Len(L.data) |-> IsNa(L.data[i])],
                   !.missing_count =
                      CountTrue([i \in 1..Len(L.data) |-> IsNa(L.data[i])])]
    ELSE IF pc = 1
    THEN [L EXCEPT !.string_lengths =
                      [i \in 1..Len(L.data) |-> StrLen(L.data[i])]]
    ELSE IF pc = 2
    THEN [L EXCEPT !.is_valid_length =
                      [i \in 1..Len(L.string_lengths) |->
                          /\ L.string_lengths[i] # NaNLen
                          /\ L.string_lengths[i] <= L.max_length]]
    ELSE [L EXCEPT !.validity_results = where(L.is_valid_length, L.is_missing)]

\* the result dictionary of validate_varchar_detailed
varchar_return(L) ==
    LET valid_count == CountEq(L.validity_results, "True")
        invalid_count == CountEq(L.validity_results, "False")
        present == Len(L.data) - L.missing_count
    IN  [total_values |-> Len(L.data),
         missing_values |-> L.missing_count,
         valid_values |-> valid_count,
         invalid_values |-> invalid_count,
         validity_rate |->
            IF present > 0 THEN Round2(valid_count, present) ELSE Rate(0),
         completeness_rate |-> NumpyDivRound2(present, Len(L.data))]

\* check_completeness, the three counts
completeness_step(L, pc) ==
    IF pc = 0
    THEN [L EXCEPT !.missing_count =
                      CountTrue([i \in 1..Len(L.data) |-> IsNa(L.data[i])])]
    ELSE IF pc = 1
    THEN [L EXCEPT !.total_count = Len(L.data)]
    ELSE [L EXCEPT !.present_count = L.total_count - L.missing_count]

\* the result dictionary of check_completeness
completeness_return(L) ==
    [total_values |-> L.total_count,
     missing_values |-> L.missing_count,
     present_values |-> L.present_count,
     completeness_rate |->
        IF L.total_count > 0 THEN Round2(L.present_count, L.total_count)
        ELSE Rate(0)]

\* the next call gets the first unused activation
NextCall == CHOOSE id \in 1..MaxCalls :
                /\ frames[id].fn = "none"
                /\ \A j \in 1..(id - 1) : frames[j].fn # "none"

\* ------------------------------------- the validity section of the report
\* The recorded report has, for every column, total_values,
\* non_null_values, valid_count, invalid_count, validity_percentage and
\* issues.  The function that wrote it is not in the notebook; what it does
\* for a string column and for a date column is taken from the entries of
\* is_active (1012 invalid rows, issues ["Length > 255"]) and
\* registration_date (20 invalid rows, issues ["Dates before 1900-01-01",
\* "Dates after 2100-01-01"]); a column with no invalid row has issues [].
NoValiditySection ==
    [rule |-> [type |-> "varchar", max_length |-> 0],
     entry |->
        [total_values |-> 0, non_null_values |-> 0, valid_count |-> 0,
         invalid_count |-> 0, validity_percentage |-> Rate(0),
         issues |-> <<>>]]

\* a date, by its year (the first of January of that year)
Date(year) == [k |-> "date", s |-> "", b |-> 0, h |-> year]

MinDate == 1900

MaxDate == 2100

ReportMaxLength == 255

ValidityRules ==
    {[type |-> "varchar", max_length |-> 5],
     [type |-> "varchar", max_length |-> ReportMaxLength],
     [type |-> "date", max_length |-> 0]}

\* the violation categories of a rule, in the order the report lists them
Categories(rule) ==
    IF rule.type = "varchar"
    THEN <<(<<"Length >", rule.max_length>>)>>
    ELSE <<(<<"Dates before", MinDate>>), (<<"Dates after", MaxDate>>)>>

\* the present value v falls in the category
violates(rule, v, category) ==
    IF rule.type = "varchar" THEN StrLen(v) > rule.max_length
    ELSE IF category[1] = "Dates before" THEN v.h < MinDate
    ELSE v.h > MaxDate

issues_perRow(rule, d) ==
    LET cat(i) ==
            CHOOSE c \in {Categories(rule)[n] : n \in 1..Len(Categories(rule))} :
                violates(rule, d[i], c)
        bad == SelectSeq([i \in 1..Len(d) |-> i],
                         LAMBDA i : /\ ~IsNa(d[i])
                                    /\ \E n \in 1..Len(Categories(rule)) :
                                          violates(rule, d[i], Categories(rule)[n]))
    IN  [p \in 1..Len(bad) |-> cat(bad[p])]

issues(rule, d) ==
    SelectSeq(Categories(rule),
              LAMBDA c : \E i \in 1..Len(d) :
                             ~IsNa(d[i]) /\ violates(rule, d[i], c))

\* the validity entry of one column of the report
check_validity(d, rule) ==
    LET present == {i \in 1..Len(d) : ~IsNa(d[i])}
        invalid == {i \in present :
                       \E n \in 1..Len(Categories(rule)) :
                           violates(rule, d[i], Categories(rule)[n])}
        valid_count == Cardinality(present \ invalid)
    IN  [total_values |-> Len(d),
         non_null_values |-> Cardinality(present),
         valid_count |-> valid_count,
         invalid_count |-> Cardinality(invalid),
         validity_percentage |->
            IF Cardinality(present) > 0
            THEN Round2(valid_count, Cardinality(present)) ELSE Rate(0),
         issues |-> issues(rule, d)]

\* ------------------------------------------------------ your_original_style
NoResults == [max_len |-> 0, results |-> <<>>]

your_original_style_missingPasses(d, max_len) ==
    [i \in 1..Len(d) |-> IF IsNa(d[i]) THEN TRUE ELSE StrLen(d[i]) <= max_len]

\* the loop: False for a missing value, else len(str(value)) <= max_len
your_original_style(d, max_len) ==
    [i \in 1..Len(d) |-> IF IsNa(d[i]) THEN FALSE ELSE StrLen(d[i]) <= max_len]

\* ---------------------------------------------- is_valid_varchar_vectorized
\* a comparison with NaN is False: the result of <= is a bool Series
LengthAtMost(length, max_len) ==
    IF length # NaNLen /\ length <= max_len THEN "True" ELSE "False"

fillna(series, value) ==
    [i \in 1..Len(series) |-> IF series[i] = "NaN" THEN value ELSE series[i]]

is_valid_varchar_vectorized(d, max_len) ==
    LET valid_length ==
            [i \in 1..Len(d) |-> LengthAtMost(StrLen(d[i]), max_len)]
    IN  fillna(valid_length, "True")

\* ----------------------------------------------------------------- actions
\* nothing called yet in the notebook cells
NoChecks ==
    /\ called = {}
    /\ completeness_result = NoCompleteness
    /\ max_length = DefaultMaxLength
    /\ varchar_result = NoValidity
    /\ varchar_validity = <<>>
    /\ min_val = Int64Min
    /\ max_val = Int64Max
    /\ bigint_result = NoValidity
    /\ bigint_validity = <<>>
    /\ uniqueness_result = NoUniqueness
    /\ repeated = FALSE
    /\ old_results = NoResults
    /\ vectorized_results = NoResults
    /\ validity_section = NoValiditySection

\* no table analysis under way
NoAnalysis ==
    /\ source = NoSource
    /\ clock = 0
    /\ run = IdleRun
    /\ reports = <<>>

Init ==
    /\ data \in StrColumns \cup NumColumns
    /\ NoChecks
    /\ NoAnalysis
    /\ frames = NoFrames

CheckCompleteness ==
    /\ completeness_result' = check_completeness(data)
    /\ called' = called \cup {"completeness"}
    /\ repeated' = (repeated \/ "completeness" \in called)
    /\ UNCHANGED <<data, varcharVars, bigintVars, uniqueness_result,
                   analyzeVars, frames, variantVars>>

\* INPUT: "pandas Series with string data": an object column of strings and
\* missing markers (.str is not available on a float64 column of NaN only)
ValidateVarchar ==
    /\ data \in StrColumns
    /\ InferDtype(data) = "object"
    /\ \E m \in MaxLengths :
        /\ max_length' = m
        /\ varchar_result' = validate_varchar_detailed(data, m)
        /\ varchar_validity' = varchar_validity_results(data, m)
        /\ repeated' = (repeated \/ ("varchar" \in called /\ m = max_length))
    /\ called' = called \cup {"varchar"}
    /\ UNCHANGED <<data, completeness_result, bigintVars, uniqueness_result,
                   analyzeVars, frames, variantVars>>

\* INPUT: "pandas Series with numeric data"; the bounds are Python ints
\* within the BIGINT range
ValidateBigint_castsInPlace ==
    /\ data \in NumColumns
    /\ \E bounds \in Bounds :
        /\ min_val' = bounds[1]
        /\ max_val' = bounds[2]
        /\ bigint_result' = validate_bigint_detailed(data, bounds[1], bounds[2])
        /\ bigint_validity' = bigint_validity_results(data, bounds[1], bounds[2])
        /\ repeated' =
              (repeated \/ ("bigint" \in called /\ bounds = <<min_val, max_val>>))
    /\ called' = called \cup {"bigint"}
    /\ data' = [i \in 1..Len(data) |->
                   IF IsNa(data[i]) THEN NaN ELSE ToFloat64(data[i])]
    /\ UNCHANGED <<completeness_result, varcharVars, uniqueness_result,
                   analyzeVars, frames, variantVars>>

ValidateBigint ==
    /\ data \in NumColumns
    /\ \E bounds \in Bounds :
        /\ min_val' = bounds[1]
        /\ max_val' = bounds[2]
        /\ bigint_result' = validate_bigint_detailed(data, bounds[1], bounds[2])
        /\ bigint_validity' = bigint_validity_results(data, bounds[1], bounds[2])
        /\ repeated' =
              (repeated \/ ("bigint" \in called /\ bounds = <<min_val, max_val>>))
    /\ called' = called \cup {"bigint"}
    /\ UNCHANGED <<data, completeness_result, varcharVars, uniqueness_result,
                   analyzeVars, frames, variantVars>>

CheckUniqueness ==
    /\ uniqueness_result' = check_uniqueness(data)
    /\ called' = called \cup {"uniqueness"}
    /\ UNCHANGED <<data, completeness_result, varcharVars, bigintVars, repeated,
                   analyzeVars, frames, variantVars>>

Next ==
    \/ CheckCompleteness
    \/ ValidateVarchar
    \/ ValidateBigint
    \/ CheckUniqueness

Spec == Init /\ [][Next]_vars

\* ------------------------------------------------------- analyze: actions
InitAnalyze ==
    /\ data = <<>>
    /\ NoChecks
    /\ source \in Sources
    /\ clock = 0
    /\ run = IdleRun
    /\ reports = <<>>
    /\ frames = NoFrames

\* analyze is entered: the Sampler fixes the rows, one check is dispatched
\* per column
AnalyzeStart ==
    /\ run.pc = "idle"
    /\ Len(reports) < MaxRuns
    /\ \E sampling_config \in SamplingConfigs :
        \E plan \in Sampler(source, sampling_config) :
            run' = [pc |-> "checking", sampling_config |-> sampling_config,
                    plan |-> plan, pending |-> ColumnNames,
                    results |-> [c \in ColumnNames |-> PendingResult]]
    /\ clock' = clock + 1
    /\ UNCHANGED <<checkVars, source, reports, frames>>

\* the check of one column completes
ColumnCheck ==
    /\ run.pc = "checking"
    /\ \E c \in run.pending :
        run' = [run EXCEPT
                   !.pending = @ \ {c},
                   !.results[c] =
                       check_column(rules_by_column[c],
                                    column_values(source, c, run.plan.rows))]
    /\ clock' = clock + 1
    /\ UNCHANGED <<checkVars, source, reports, frames>>

\* the ReportAggregator builds the TableReport and analyze returns it
Assemble ==
    /\ run.pc = "checking"
    /\ all_calls_complete(run)
    /\ reports' = Append(reports, TableReport(source, run, clock))
    /\ run' = IdleRun
    /\ clock' = clock + 1
    /\ UNCHANGED <<checkVars, source, frames>>

NextAnalyze == AnalyzeStart \/ ColumnCheck \/ Assemble

SpecAnalyze == InitAnalyze /\ [][NextAnalyze]_vars

\* ------------------------------------- the checks in progress: actions
InitSteps ==
    /\ data = <<>>
    /\ NoChecks
    /\ NoAnalysis
    /\ frames = NoFrames

CallCheckCompleteness ==
    /\ \E id \in 1..MaxCalls : frames[id].fn = "none"
    /\ \E col \in StepColumns :
        frames' = [frames EXCEPT
                      ![NextCall].fn = "check_completeness",
                      ![NextCall].arg = col,
                      ![frame_of(NextCall)].locals =
                          [NoLocals EXCEPT !.data = col]]
    /\ UNCHANGED <<checkVars, analyzeVars>>

CallValidateVarchar ==
    /\ \E id \in 1..MaxCalls : frames[id].fn = "none"
    /\ \E col \in StepColumns, m \in StepMaxLengths :
        /\ InferDtype(col) = "object"
        /\ frames' = [frames EXCEPT
                         ![NextCall].fn = "validate_varchar_detailed",
                         ![NextCall].arg = col,
                         ![NextCall].arg_max_length = m,
                         ![frame_of(NextCall)].locals =
                             [NoLocals EXCEPT !.data = col, !.max_length = m]]
    /\ UNCHANGED <<checkVars, analyzeVars>>

StepCompleteness ==
    /\ \E id \in 1..MaxCalls :
        /\ frames[id].fn = "check_completeness"
        /\ frames[id].pc < 3
        /\ frames' = [frames EXCEPT
                         ![id].pc = @ + 1,
                         ![frame_of(id)].locals =
                             completeness_step(frames[frame_of(id)].locals,
                                               frames[id].pc)]
    /\ UNCHANGED <<checkVars, analyzeVars>>

ReturnCompleteness ==
    /\ \E id \in 1..MaxCalls :
        /\ frames[id].fn = "check_completeness"
        /\ frames[id].pc = 3
        /\ frames' = [frames EXCEPT
                         ![id].pc = 4,
                         ![id].returned_completeness =
                             completeness_return(frames[frame_of(id)].locals)]
    /\ UNCHANGED <<checkVars, analyzeVars>>

StepVarchar ==
    /\ \E id \in 1..MaxCalls :
        /\ frames[id].fn = "validate_varchar_detailed"
        /\ frames[id].pc < 4
        /\ frames' = [frames EXCEPT
                         ![id].pc = @ + 1,
                         ![frame_of(id)].locals =
                             varchar_step(frames[frame_of(id)].locals,
                                          frames[id].pc)]
    /\ UNCHANGED <<checkVars, analyzeVars>>

ReturnVarchar ==
    /\ \E id \in 1..MaxCalls :
        /\ frames[id].fn = "validate_varchar_detailed"
        /\ frames[id].pc = 4
        /\ frames' = [frames EXCEPT
                         ![id].pc = 5,
                         ![id].returned_varchar =
                             varchar_return(frames[frame_of(id)].locals),
                         ![id].returned_validity =
                             frames[frame_of(id)].locals.validity_results]
    /\ UNCHANGED <<checkVars, analyzeVars>>

NextSteps ==
    \/ CallCheckCompleteness
    \/ CallValidateVarchar
    \/ StepCompleteness
    \/ ReturnCompleteness
    \/ StepVarchar
    \/ ReturnVarchar

SpecSteps == InitSteps /\ [][NextSteps]_vars

\* ------------------------------- the other validity functions: actions
VariantStrCells == {None, NaN, Str(""), Short, Exceeding51}

DateCells == {None, Date(1850), Date(2000), Date(2150)}

VariantMaxLengths == {5, DefaultMaxLength}

InitVariants ==
    /\ data \in ColumnsOver(VariantStrCells) \cup ColumnsOver(DateCells)
    /\ NoChecks
    /\ NoAnalysis
    /\ frames = NoFrames

IsStrColumn(d) == \A i \in 1..Len(d) : IsNa(d[i]) \/ d[i].k = "str"

IsDateColumn(d) == \A i \in 1..Len(d) : IsNa(d[i]) \/ d[i].k = "date"

YourOriginalStyle ==
    /\ IsStrColumn(data)
    /\ \E max_len \in VariantMaxLengths :
        old_results' = [max_len |-> max_len,
                        results |-> your_original_style(data, max_len)]
    /\ called' = called \cup {"original"}
    /\ UNCHANGED <<data, completeness_result, varcharVars, bigintVars,
                   uniqueness_result, repeated, vectorized_results,
                   validity_section, analyzeVars, frames>>

\* data.str needs a column that holds strings
IsValidVarcharVectorized ==
    /\ IsStrColumn(data)
    /\ InferDtype(data) = "object"
    /\ \E max_len \in VariantMaxLengths :
        vectorized_results' =
            [max_len |-> max_len,
             results |-> is_valid_varchar_vectorized(data, max_len)]
    /\ called' = called \cup {"vectorized"}
    /\ UNCHANGED <<data, completeness_result, varcharVars, bigintVars,
                   uniqueness_result, repeated, old_results,
                   validity_section, analyzeVars, frames>>

CheckValidity ==
    /\ \E rule \in ValidityRules :
        /\ IF rule.type = "varchar" THEN IsStrColumn(data)
           ELSE IsDateColumn(data)
        /\ validity_section' =
              [rule |-> rule, entry |-> check_validity(data, rule)]
    /\ called' = called \cup {"validity"}
    /\ UNCHANGED <<data, completeness_result, varcharVars, bigintVars,
                   uniqueness_result, repeated, old_results,
                   vectorized_results, analyzeVars, frames>>

NextVariants ==
    \/ ValidateVarchar
    \/ YourOriginalStyle
    \/ IsValidVarcharVectorized
    \/ CheckValidity

SpecVariants == InitVariants /\ [][NextVariants]_vars

\* ------------------------------------------------------------- properties
Abs(x) == IF x < 0 THEN -x ELSE x

\* rate is num / den * 100 to the nearest hundredth
IsRoundedPercentage(rate, num, den) ==
    /\ ~rate.nan
    /\ 2 * Abs(rate.h * den - 10000 * num) <= den

MissingPositions == {i \in 1..Len(data) : IsNa(data[i])}

Positions(results, x) == {i \in 1..Len(results) : results[i] = x}

CountsPartition(r) ==
    /\ r.total_values = Len(data)
    /\ r.missing_values + r.valid_values + r.invalid_values = r.total_values
    /\ (r.total_values - r.missing_values) = r.valid_values + r.invalid_values

\* C1: in the output of validate_varchar_detailed and of
\* validate_bigint_detailed, missing + valid + invalid = total for every
\* column and every rule parameter.
C1_CountsPartition ==
    /\ "varchar" \in called => CountsPartition(varchar_result)
    /\ "bigint" \in called => CountsPartition(bigint_result)

C1_Witness ==
    /\ {"varchar", "bigint"} \cap called # {}
    /\ \E r \in {varchar_result, bigint_result} :
        r.missing_values > 0 /\ r.valid_values > 0 /\ r.invalid_values > 0

MaskAgrees(results, r) ==
    /\ Len(results) = Len(data)
    /\ Positions(results, "NaN") = MissingPositions
    /\ Positions(results, "True") \cup Positions(results, "False")
          = (1..Len(data)) \ MissingPositions
    /\ r.missing_values = completeness_result.missing_values

\* C2: the positions the validity check leaves unclassified (neither valid
\* nor invalid) are exactly the missing positions check_completeness counts,
\* and the two outputs report the same missing_values.
C2_MissingMaskAgrees ==
    "completeness" \in called =>
        /\ "varchar" \in called => MaskAgrees(varchar_validity, varchar_result)
        /\ "bigint" \in called => MaskAgrees(bigint_validity, bigint_result)

C2_Witness ==
    /\ {"completeness", "varchar"} \subseteq called
    /\ MissingPositions # {}
    /\ \E i \in 1..Len(data) : data[i] = Str("")
    /\ Positions(varchar_validity, "False") # {}

\* C3: for a column with total = 0 every rate of every check is 0,
\* the completeness_rate of the two validity checks included.
C3_EmptyColumnRatesAreZero ==
    Len(data) = 0 =>
        /\ "completeness" \in called =>
              completeness_result.completeness_rate = Rate(0)
        /\ "varchar" \in called =>
              /\ varchar_result.validity_rate = Rate(0)
              /\ varchar_result.completeness_rate = Rate(0)
        /\ "bigint" \in called =>
              /\ bigint_result.validity_rate = Rate(0)
              /\ bigint_result.completeness_rate = Rate(0)

\* C4: check_completeness returns total = number of positions, missing =
\* number of missing positions, present = total - missing, and
\* completeness_rate = present / total * 100 to two decimals, 0 when total
\* is 0; the notebook's test column gives 8, 3, 5 and 62.5.
C4_Completeness ==
    "completeness" \in called =>
        LET r == completeness_result IN
        /\ r.total_values = Len(data)
        /\ r.missing_values = Cardinality(MissingPositions)
        /\ r.present_values = Cardinality((1..Len(data)) \ MissingPositions)
        /\ r.missing_values + r.present_values = r.total_values
        /\ IF r.total_values = 0 THEN r.completeness_rate = Rate(0)
           ELSE IsRoundedPercentage(r.completeness_rate, r.present_values,
                                    r.total_values)
        /\ data = test_series =>
              r = [total_values |-> 8, missing_values |-> 3,
                   present_values |-> 5, completeness_rate |-> Rate(6250)]

C4_Witness ==
    /\ "completeness" \in called
    /\ completeness_result.total_values = 3
    /\ completeness_result.missing_values = 1
    /\ completeness_result.completeness_rate = Rate(6667)

ValidityRateOf(results, r) ==
    LET valid == Cardinality(Positions(results, "True"))
        present == Len(data) - Cardinality(MissingPositions)
    IN  IF present > 0
        THEN IsRoundedPercentage(r.validity_rate, valid, present)
        ELSE r.validity_rate = Rate(0)

C6_LengthRule ==
    "varchar" \in called =>
        /\ \A i \in 1..Len(data) :
              data[i].k = "str" =>
                /\ varchar_validity[i] = "True" <=> Len(data[i].s) <= max_length
                /\ varchar_validity[i] = "False" <=> Len(data[i].s) > max_length
        /\ (data = ScenarioFiftyOne /\ max_length = 50) =>
              /\ varchar_result.valid_values = 0
              /\ varchar_result.invalid_values = 1

C6_Witness ==
    /\ "varchar" \in called
    /\ max_length = 50
    /\ data = <<FiftyChars, Exceeding51>>
    /\ varchar_validity = <<"True", "False">>

C7_Case == "varchar" \in called /\ data = ScenarioFifty /\ max_length = 50

\* C7 as stated: the column ["Short", "Exactly-fifty-...-50chars!!", None]
\* with max_length = 50 gives total 3, missing 1, valid 2, invalid 0 and
\* validity_rate 100.0.
C7_Original ==
    C7_Case =>
        /\ varchar_result.total_values = 3
        /\ varchar_result.missing_values = 1
        /\ varchar_result.valid_values = 2
        /\ varchar_result.invalid_values = 0
        /\ varchar_result.validity_rate = Rate(10000)

\* C7 amended: the second string has 51 characters, so the column gives
\* total 3, missing 1, valid 1, invalid 1 and validity_rate 50.0.
C7_Amended ==
    C7_Case =>
        /\ Len(Exactly50.s) = 51
        /\ varchar_result.total_values = 3
        /\ varchar_result.missing_values = 1
        /\ varchar_result.valid_values = 1
        /\ varchar_result.invalid_values = 1
        /\ varchar_result.validity_rate = Rate(5000)

C7_Witness == C7_Case /\ varchar_validity = <<"True", "False", "NaN">>

\* the value of the cell itself, before pandas stores it
InRange(v, lo, hi) == NumLeq(lo, v) /\ NumLeq(v, hi)

IsWhole(v) == v.h % 2 = 0

\* C8: a present number is valid exactly when min_value <= value <=
\* max_value and it has no fractional part, and a value failing either
\* condition is counted invalid exactly once.
C8_IntegerRule ==
    "bigint" \in called =>
        LET failing == {i \in 1..Len(data) :
                          /\ IsNumber(data[i])
                          /\ ~(InRange(data[i], min_val, max_val)
                                  /\ IsWhole(data[i]))}
        IN  /\ \A i \in 1..Len(data) :
                  IsNumber(data[i]) =>
                      (bigint_validity[i] = "True" <=> i \notin failing)
            /\ bigint_result.invalid_values = Cardinality(failing)

IsTwoTo63(v) == v.k = "int" /\ v.b = 1 /\ v.h = 0

\* C9: with the default bounds -9223372036854775808 and 9223372036854775807
\* are valid and 9223372036854775808 is invalid, so
\* [42, -100, 9223372036854775808, None] gives missing 1, valid 2, invalid 1.
C9_DefaultBounds ==
    ("bigint" \in called /\ min_val = Int64Min /\ max_val = Int64Max) =>
        /\ \A i \in 1..Len(data) :
              /\ data[i] \in {Int64Min, Int64Max} => bigint_validity[i] = "True"
              /\ IsTwoTo63(data[i]) => bigint_validity[i] = "False"
        /\ data = ScenarioBigint =>
              /\ bigint_result.missing_values = 1
              /\ bigint_result.valid_values = 2
              /\ bigint_result.invalid_values = 1

\* C10: duplicate_count + unique_count = total, where total, unique_count
\* and duplicate_count are taken over the non-missing values only.
C10_UniquenessOverPresent ==
    "uniqueness" \in called =>
        LET present == (1..Len(data)) \ MissingPositions
            r == uniqueness_result
        IN  /\ r.duplicate_count + r.unique_count = r.total_rows
            /\ r.total_rows = Cardinality(present)
            /\ r.unique_count =
                  Cardinality({Key(Series(data)[i]) : i \in present})

\* rows holding the same value as row i (all missing markers are one value)
SameValue(i, j) == Key(Series(data)[i]) = Key(Series(data)[j])

Occurrences(i) == Cardinality({j \in 1..Len(data) : SameValue(i, j)})

\* C11: every distinct value is counted once in unique_count, however often
\* it is repeated, and top_duplicates lists only values that occur more than
\* once, each with its number of occurrences; ["A","A","B","C"] gives
\* unique_count 3, duplicate_count 1 and top_duplicates {"A": 2}.
C11_RepeatedValuesOnly ==
    "uniqueness" \in called =>
        LET r == uniqueness_result
            s == Series(data)
            firsts == {i \in 1..Len(data) :
                          \A j \in 1..(i - 1) : ~SameValue(i, j)}
        IN  /\ r.unique_count = Cardinality(firsts)
            /\ \A p \in 1..Len(r.top_duplicates) :
                  \E i \in 1..Len(data) :
                      /\ ~IsNa(s[i])
                      /\ r.top_duplicates[p][1] = Key(s[i])
                      /\ r.top_duplicates[p][2] = Occurrences(i)
                      /\ Occurrences(i) > 1
            /\ data = ScenarioUniqueness =>
                  /\ r.unique_count = 3
                  /\ r.duplicate_count = 1
                  /\ r.top_duplicates = <<(<<Str("A"), 2>>)>>

C11_Witness ==
    /\ "uniqueness" \in called
    /\ data = ScenarioUniqueness
    /\ uniqueness_result.top_duplicates = <<(<<Str("A"), 2>>)>>
    /\ uniqueness_result.unique_count = 3

\* the row where each present value of the column first appears
PresentFirsts ==
    {i \in 1..Len(data) :
        ~IsNa(data[i]) /\ \A j \in 1..(i - 1) : ~SameValue(i, j)}

RepeatedFirsts == {i \in PresentFirsts : Occurrences(i) > 1}

\* top_duplicates is the first K of candidates (rows of first appearance),
\* taken by count descending and, among equal counts, by first appearance
IsTopOf(candidates) ==
    LET t == uniqueness_result.top_duplicates
        s == Series(data)
        row(p) == CHOOSE i \in candidates : Key(s[i]) = t[p][1]
        before(p, i) ==
            \/ t[p][2] > Occurrences(i)
            \/ t[p][2] = Occurrences(i) /\ row(p) < i
    IN  /\ Len(t) = Min(K, Cardinality(candidates))
        /\ \A p \in 1..Len(t) :
              \E i \in candidates :
                  Key(s[i]) = t[p][1] /\ t[p][2] = Occurrences(i)
        /\ \A p, q \in 1..Len(t) : p < q => before(p, row(q))
        /\ \A i \in candidates :
              (\A p \in 1..Len(t) : t[p][1] # Key(s[i])) =>
                  \A p \in 1..Len(t) : before(p, i)

\* C12 as stated: top_duplicates holds at most K = 5 entries, the K most
\* frequent values of the column with their counts, by count descending and
\* equal counts by first appearance.
C12_Original == "uniqueness" \in called => IsTopOf(PresentFirsts)

\* C12 amended: top_duplicates holds at most K = 5 entries, the K most
\* frequent among the values that occur more than once, with their counts,
\* by count descending and equal counts by first appearance; a value that
\* occurs once is never listed, even when fewer than K values are repeated.
C12_Amended == "uniqueness" \in called => IsTopOf(RepeatedFirsts)

C12_Witness ==
    /\ "uniqueness" \in called
    /\ data = SixDuplicated
    /\ Len(uniqueness_result.top_duplicates) = K
    /\ uniqueness_result.top_duplicates[1] = <<Str("A"), 3>>
    /\ uniqueness_result.top_duplicates[2] = <<Str("D"), 3>>
    /\ uniqueness_result.top_duplicates[3] = <<Str("F"), 2>>
    /\ uniqueness_result.top_duplicates[5] = <<Str("B"), 2>>

\* the runs of analyze that examined every row of the source
Unsampled == {i \in 1..Len(reports) : ~reports[i].sampled}

WithoutTimestamp(report) ==
    [report EXCEPT !.table_info.analysis_timestamp = 0]

PlansOf(k) ==
    {plan \in UNION {Sampler(source, cfg) : cfg \in SamplingConfigs} :
        /\ plan.sampled = reports[k].sampled
        /\ plan.strategy = reports[k].sampling_strategy
        /\ Len(plan.rows) = reports[k].table_info.total_rows}

\* the result of column c in report k is the one of the rows of plan: a
\* failed ColumnResult naming the error when the check raises, the outputs
\* of the three checks otherwise
ColumnReported(k, c, plan) ==
    LET d == column_values(source, c, plan.rows)
        rule == rules_by_column[c]
        res == reports[k].columns[c]
    IN  IF raises(rule, d) # "none"
        THEN res.status = "failed" /\ raises(rule, d) \in res.issues
        ELSE /\ res.status = "ok"
             /\ res.completeness = check_completeness(d)
             /\ res.uniqueness = check_uniqueness(d)
             /\ res.validity =
                   IF rule.type = "varchar"
                   THEN validate_varchar_detailed(d, rule.max_length)
                   ELSE validate_bigint_detailed(d, rule.min_value,
                                                 rule.max_value)

\* C14: when the check of one column fails with a local error, analyze
\* still returns a TableReport holding the results of every other column,
\* and the failing column is in it as a failed ColumnResult whose issues
\* name the error; the column is never left out.
C14_FailedColumnReported ==
    \A k \in 1..Len(reports) :
        /\ DOMAIN reports[k].columns = ColumnNames
        /\ \E plan \in PlansOf(k) :
              \A c \in ColumnNames : ColumnReported(k, c, plan)

C14_Witness ==
    /\ Len(reports) >= 1
    /\ reports[1].table_info.total_rows = MaxRows
    /\ reports[1].columns["first_name"].status = "failed"
    /\ reports[1].columns["first_name"].issues = {"AttributeError"}
    /\ reports[1].columns["customer_id"].status = "ok"
    /\ reports[1].columns["customer_id"].completeness.missing_values = 1

\* the step is the return of a report by analyze
Returns == Len(reports') = Len(reports) + 1

Returned == reports'[Len(reports')]

StrictlyIncreasing(q) == \A i, j \in 1..Len(q) : i < j => q[i] < q[j]

C17_AssembledAfterAllCalls ==
    [][Returns =>
         /\ run.pending = {}
         /\ \A c \in ColumnNames :
               /\ Returned.columns[c] = run.results[c]
               /\ Returned.columns[c].status \in {"ok", "failed"}]_vars

C17_Witness ==
    /\ Len(reports) = MaxRuns
    /\ source.remote
    /\ \A k \in 1..MaxRuns :
          \A c \in ColumnNames : reports[k].columns[c].status = "ok"
    /\ reports[1].table_info.total_rows = MaxRows

ReturnedCompleteness(id) ==
    frames[id].fn = "check_completeness" /\ frames[id].pc = 4

ReturnedVarchar(id) ==
    frames[id].fn = "validate_varchar_detailed" /\ frames[id].pc = 5

\* C18: the checks share no mutable state: however the statements of
\* several calls of check_completeness and validate_varchar_detailed on
\* different columns interleave, each call returns what the check returns
\* for its own column evaluated alone.
C18_SameResultAsAlone ==
    \A id \in 1..MaxCalls :
        /\ ReturnedCompleteness(id) =>
              frames[id].returned_completeness
                  = check_completeness(frames[id].arg)
        /\ ReturnedVarchar(id) =>
              /\ frames[id].returned_varchar =
                    validate_varchar_detailed(frames[id].arg,
                                              frames[id].arg_max_length)
              /\ frames[id].returned_validity =
                    varchar_validity_results(frames[id].arg,
                                             frames[id].arg_max_length)

\* a validity call has returned while a completeness call on another
\* column is half-way through its body
C18_Witness ==
    /\ ReturnedVarchar(1)
    /\ frames[1].returned_varchar.invalid_values = 1
    /\ frames[2].fn = "check_completeness"
    /\ frames[2].pc = 2
    /\ frames[2].arg # frames[1].arg

\* C19: validate_bigint_detailed called with contradictory bounds
\* (min_val > max_val) fails with InvalidRuleError: it does not return a
\* result dictionary ("bigint" is in called once the call has returned one).
C19_InvalidRuleError ==
    ~NumLeq(min_val, max_val) => "bigint" \notin called

\* the step starts call id of validate_varchar_detailed
StartsVarchar(id) ==
    frames[id].fn = "none" /\ frames'[id].fn = "validate_varchar_detailed"

\* the step is Step 4 of call id: validity_results is assigned
Classifies(id) ==
    /\ frames[id].fn = "validate_varchar_detailed"
    /\ frames[id].pc = 3
    /\ frames'[id].pc = 4

\* C20 as stated: the validity check of a column starts only after the
\* completeness check of that column has finished.
C20_Original ==
    [][\A id \in 1..MaxCalls :
          StartsVarchar(id) =>
              \E j \in 1..MaxCalls :
                  ReturnedCompleteness(j) /\ frames[j].arg = frames'[id].arg]_vars

\* C20 amended: the validity check does not wait for the completeness check
\* of the column; it computes the missing mask itself as its first step, so
\* when it classifies the values (Step 4) the mask of that call is already
\* there, it is the mask of the column, and exactly the missing positions
\* are left unclassified.
C20_Amended ==
    [][\A id \in 1..MaxCalls :
          Classifies(id) =>
              LET d == frames[id].arg
              IN  /\ frames[id].locals.is_missing
                        = [i \in 1..Len(d) |-> IsNa(d[i])]
                  /\ Len(frames'[id].locals.validity_results) = Len(d)
                  /\ \A i \in 1..Len(d) :
                        frames'[id].locals.validity_results[i] = "NaN"
                            <=> IsNa(d[i])]_vars

\* a validity check has returned and no completeness check was ever called
C20_Witness ==
    /\ ReturnedVarchar(1)
    /\ frames[1].returned_varchar.missing_values = 1
    /\ frames[1].returned_validity[2] = "NaN"
    /\ \A id \in 1..MaxCalls : frames[id].fn # "check_completeness"

\* C21: no check modifies what it is given: the column is the same after
\* every call of check_completeness, validate_varchar_detailed and
\* validate_bigint_detailed, and a call repeated with the same arguments
\* returns a result equal to the one of the call before.
C21_NoCheckModifiesItsInput ==
    [][/\ data' = data
       /\ "completeness" \in called =>
             completeness_result' = completeness_result
       /\ ("varchar" \in called /\ max_length' = max_length) =>
             /\ varchar_result' = varchar_result
             /\ varchar_validity' = varchar_validity
       /\ ("bigint" \in called /\ min_val' = min_val /\ max_val' = max_val) =>
             /\ bigint_result' = bigint_result
             /\ bigint_validity' = bigint_validity]_vars

\* validate_bigint_detailed was called twice with the same bounds on a
\* column holding integers and a missing value
C21_Witness ==
    /\ repeated
    /\ called = {"bigint"}
    /\ data = ScenarioBigint
    /\ bigint_result.missing_values = 1

\* C22: the issues list of a validity entry has one entry per distinct
\* violation category found in the column, not one per invalid row: no
\* entry occurs twice, there are at most as many entries as the rule has
\* categories (one for a string rule, two for a date rule), every entry is
\* a category that some present value falls in, and the list is empty when
\* invalid_count is 0.
C22_IssuesAreCategories ==
    "validity" \in called =>
        LET e == validity_section.entry
            rule == validity_section.rule
            found(c) == \E i \in 1..Len(data) :
                            ~IsNa(data[i]) /\ violates(rule, data[i], c)
        IN  /\ \A p, q \in 1..Len(e.issues) :
                  p # q => e.issues[p] # e.issues[q]
            /\ Len(e.issues) <= (IF rule.type = "varchar" THEN 1 ELSE 2)
            /\ \A p \in 1..Len(e.issues) : found(e.issues[p])
            /\ e.invalid_count = 0 => e.issues = <<>>

\* three invalid dates, two categories
C22_Witness ==
    /\ "validity" \in called
    /\ data = <<Date(1850), Date(1850), Date(2150)>>
    /\ validity_section.entry.invalid_count = 3
    /\ validity_section.entry.issues =
          <<(<<"Dates before", MinDate>>), (<<"Dates after", MaxDate>>)>>

EmptyStrings == {i \in 1..Len(data) : data[i] = Str("")}

\* C23: an empty string is a present value: validate_varchar_detailed
\* classifies "" as valid for every max_length >= 0 (its length 0 is within
\* any limit), and check_completeness counts it in present_values, not in
\* missing_values.
C23_EmptyStringIsPresent ==
    /\ "varchar" \in called =>
          /\ \A i \in EmptyStrings : varchar_validity[i] = "True"
          /\ varchar_result.valid_values >= Cardinality(EmptyStrings)
          /\ varchar_result.missing_values
                = Len(data) - Cardinality(EmptyStrings)
                    - Cardinality({i \in 1..Len(data) :
                                      data[i].k = "str" /\ data[i].s # ""})
    /\ "completeness" \in called =>
          /\ completeness_result.present_values
                = Cardinality(EmptyStrings)
                    + Cardinality({i \in 1..Len(data) :
                                      ~IsNa(data[i]) /\ data[i] # Str("")})
          /\ completeness_result.missing_values
                <= Len(data) - Cardinality(EmptyStrings)

C23_Witness ==
    /\ {"varchar", "completeness"} \subseteq called
    /\ data = <<Str(""), None>>
    /\ max_length = 0
    /\ varchar_validity = <<"True", "NaN">>
    /\ varchar_result.valid_values = 1
    /\ completeness_result.present_values = 1

\* C24: is_valid_varchar_vectorized(data, max_len) is True at every missing
\* position and, at every present position, True exactly when the length
\* of the string is <= max_len.
C24_VectorizedMissingIsValid ==
    "vectorized" \in called =>
        /\ Len(vectorized_results.results) = Len(data)
        /\ \A i \in 1..Len(data) :
              IF IsNa(data[i])
              THEN vectorized_results.results[i] = "True"
              ELSE vectorized_results.results[i] = "True"
                      <=> Len(data[i].s) <= vectorized_results.max_len

\* sum(old_results): the True entries of the list your_original_style returns
TrueEntries == {i \in 1..Len(old_results.results) : old_results.results[i]}

FalseEntries == {i \in 1..Len(old_results.results) : ~old_results.results[i]}

\* C25: on a column of strings and missing values, with the same maximum
\* length, your_original_style returns as many True entries as
\* validate_varchar_detailed reports valid_values, and as many False
\* entries as invalid_values + missing_values.
C25_OriginalFoldsMissingIntoInvalid ==
    ({"varchar", "original"} \subseteq called
        /\ old_results.max_len = max_length) =>
        /\ Cardinality(TrueEntries) = varchar_result.valid_values
        /\ Cardinality(FalseEntries)
              = varchar_result.invalid_values + varchar_result.missing_values
        /\ \A i \in 1..Len(data) :
              old_results.results[i] <=> varchar_validity[i] = "True"

C25_Witness ==
    /\ {"varchar", "original"} \subseteq called
    /\ old_results.max_len = DefaultMaxLength
    /\ max_length = DefaultMaxLength
    /\ data = <<Short, None, Exceeding51>>
    /\ old_results.results = <<TRUE, FALSE, FALSE>>
    /\ varchar_result.invalid_values = 1
    /\ varchar_result.missing_values = 1

\* the validity result r reports the completeness figures of
\* completeness_result
SameCompleteness(r) ==
    /\ r.completeness_rate = completeness_result.completeness_rate
    /\ r.total_values = completeness_result.total_values
    /\ r.missing_values = completeness_result.missing_values

\* C26: for a non-empty column, validate_varchar_detailed and
\* validate_bigint_detailed report the same completeness_rate, total_values
\* and missing_values as check_completeness reports for that column.
C26_SameCompletenessFigures ==
    Len(data) > 0 =>
        /\ {"completeness", "varchar"} \subseteq called
              => SameCompleteness(varchar_result)
        /\ {"completeness", "bigint"} \subseteq called
              => SameCompleteness(bigint_result)

C26_Witness ==
    /\ {"completeness", "bigint"} \subseteq called
    /\ data = ScenarioBigint
    /\ bigint_result.invalid_values = 1
    /\ bigint_result.completeness_rate = Rate(7500)
    /\ completeness_result.completeness_rate = Rate(7500)

\* the column before the missing values were added
WithoutMissing(d) == SelectSeq(d, LAMBDA v : ~IsNa(v))

\* the validity figures that missing values are said to leave alone
SameValidity(r, base) ==
    /\ r.valid_values = base.valid_values
    /\ r.invalid_values = base.invalid_values
    /\ r.validity_rate = base.validity_rate

\* the varchar result of the state against the column without its missing
\* values
VarcharValidityUnchanged ==
    "varchar" \in called =>
        SameValidity(varchar_result,
            validate_varchar_detailed(WithoutMissing(data), max_length))

\* the bigint result of the state against the column without its missing
\* values
BigintValidityUnchanged ==
    "bigint" \in called =>
        SameValidity(bigint_result,
            validate_bigint_detailed(WithoutMissing(data), min_val, max_val))

\* C27: adding missing values to a column leaves valid_values,
\* invalid_values and validity_rate of validate_varchar_detailed and of
\* validate_bigint_detailed as they are for the column without the added
\* missing values.
C27_MissingValuesLeaveValidityAlone ==
    VarcharValidityUnchanged /\ BigintValidityUnchanged

\* C28: validate_varchar_detailed is monotone in max_length: of two calls on
\* the same column with max_length m1 <= m2, the call with m2 reports at
\* least as many valid values and at most as many invalid values, and both
\* report the same missing_values and total_values.
C28_MonotoneInMaxLength ==
    \A i, j \in 1..MaxCalls :
        ( /\ ReturnedVarchar(i)
          /\ ReturnedVarchar(j)
          /\ frames[i].arg = frames[j].arg
          /\ frames[i].arg_max_length <= frames[j].arg_max_length )
        => LET r1 == frames[i].returned_varchar
               r2 == frames[j].returned_varchar
           IN  /\ r1.valid_values <= r2.valid_values
               /\ r1.invalid_values >= r2.invalid_values
               /\ r1.missing_values = r2.missing_values
               /\ r1.total_values = r2.total_values

\* the same column checked at 5 and at 50: the 50-character string turns
\* from invalid to valid
C28_Witness ==
    /\ ReturnedVarchar(1)
    /\ ReturnedVarchar(2)
    /\ frames[1].arg = <<NaN, FiftyChars>>
    /\ frames[2].arg = frames[1].arg
    /\ frames[1].arg_max_length = 5
    /\ frames[2].arg_max_length = DefaultMaxLength
    /\ frames[1].returned_varchar.invalid_values = 1
    /\ frames[2].returned_varchar.valid_values = 1

====
